---- MODULE Spec2Model ----
(***************************************************************************)
(* Model of the SMART Health Cards validation SDK:                         *)
(*   - the Compact Token Validator   (src/src/jws-compact.ts, validate)    *)
(*   - the Image QR Decoder          (src/src/image.ts, validate)          *)
(*   - the Trusted Issuer Directory  (checkTrustedIssuerDirectory)         *)
(* Strings are sequences of one-character strings.  A JavaScript value     *)
(* that may be undefined is a record [def, val].                           *)
(***************************************************************************)
EXTENDS Integers, Sequences, FiniteSets, TLC

\* ------------------------------------------------------------------ bounds
\* longest compact-token argument handed to validate
MaxLen == 7

\* ----------------------------------------------------------- JS values
Undefined == [def |-> FALSE, val |-> <<>>]
Str(s) == [def |-> TRUE, val |-> s]
\* JavaScript truthiness of a string-or-undefined value: undefined and "" are falsy
Truthy(x) == x.def /\ x.val # <<>>

\* ------------------------------------------------------------- alphabet
\* one representative of [0-9a-zA-Z_-]
Base64Url == {"a"}
\* one representative of the characters String.prototype.trim strips
WhiteSpace == {" "}
\* the characters of the modelled inputs: base64url, '.', whitespace, and a
\* character that is none of these
Alphabet == Base64Url \cup WhiteSpace \cup {".", "!"}

RECURSIVE Strings(_)
Strings(n) ==
    IF n = 0 THEN {<<>>}
    ELSE LET shorter == Strings(n - 1)
         IN shorter \cup {Append(s, c) : s \in {t \in shorter : Len(t) = n - 1}, c \in Alphabet}

\* --------------------------------------------------------------- the log
Entry(level, code, msg) == [level |-> level, code |-> code, msg |-> msg]
\* the entry's code when the call passes no ErrorCode
NoCode == "unspecified"

\* --------------------------------------------------- String.prototype.trim
RECURSIVE TrimStart(_)
TrimStart(s) ==
    IF s # <<>> /\ Head(s) \in WhiteSpace THEN TrimStart(Tail(s)) ELSE s

RECURSIVE TrimEnd(_)
TrimEnd(s) ==
    IF s # <<>> /\ s[Len(s)] \in WhiteSpace THEN TrimEnd(SubSeq(s, 1, Len(s) - 1)) ELSE s

Trim(s) == TrimEnd(TrimStart(s))

\* ------------------------------------------------ String.prototype.split
\* s.split('.')
RECURSIVE SplitFrom(_, _, _)
SplitFrom(s, i, cur) ==
    IF i > Len(s) THEN <<cur>>
    ELSE IF s[i] = "." THEN <<cur>> \o SplitFrom(s, i + 1, <<>>)
    ELSE SplitFrom(s, i + 1, Append(cur, s[i]))

Split(s) == SplitFrom(s, 1, <<>>)

\* ------------------------------------------------ String.prototype.slice
\* s.slice(0, n)
SliceHead(s, n) == SubSeq(s, 1, IF Len(s) < n THEN Len(s) ELSE n)
\* s.slice(-1)
SliceLast(s) == IF s = <<>> THEN <<>> ELSE <<s[Len(s)]>>

\* ------------------------------------------------------ the shape regex
\* /[0-9a-zA-Z_-]+\.[0-9a-zA-Z_-]+\.[0-9a-zA-Z_-]+/g.test(s): the pattern has
\* no ^ or $, so test() searches s for a matching substring: two dots p < q
\* with only base64url characters between them, one before p and one after q.
RegexTest(s) ==
    \E p \in 2..Len(s), q \in 2..Len(s) :
        /\ p + 1 < q
        /\ q < Len(s)
        /\ s[p] = "." /\ s[q] = "."
        /\ s[p - 1] \in Base64Url
        /\ s[q + 1] \in Base64Url
        /\ \A k \in (p + 1)..(q - 1) : s[k] \in Base64Url

\* the whole string is base64url.base64url.base64url
IsCompactShape(s) ==
    LET segs == Split(s)
    IN /\ Len(segs) = 3
       /\ \A k \in 1..3 : segs[k] # <<>> /\ \A j \in 1..Len(segs[k]) : segs[k][j] \in Base64Url

\* ------------------------------------------------------ program constants
MAX_JWS_SINGLE_CHUNK_LENGTH == 1195

\* ---------------------------------------------------- issuer URL strings
HttpsA == <<"h", "t", "t", "p", "s", ":", "/", "/", "a">>
HttpA == <<"h", "t", "t", "p", ":", "/", "/", "a">>
Https == <<"h", "t", "t", "p", "s", ":", "/", "/">>

\* what jwsPayload.validate may hand back: no payload, or a payload whose iss
\* is missing, empty, or one of a few URLs
PayloadKinds == {"none", "noiss", "emptyiss", "https", "https/", "http", "http/"}
PayloadOf(kind) ==
    CASE kind = "none" -> [def |-> FALSE, iss |-> Undefined]
      [] kind = "noiss" -> [def |-> TRUE, iss |-> Undefined]
      [] kind = "emptyiss" -> [def |-> TRUE, iss |-> Str(<<>>)]
      [] kind = "https" -> [def |-> TRUE, iss |-> Str(HttpsA)]
      [] kind = "https/" -> [def |-> TRUE, iss |-> Str(Append(HttpsA, "/"))]
      [] kind = "http" -> [def |-> TRUE, iss |-> Str(HttpA)]
      [] kind = "http/" -> [def |-> TRUE, iss |-> Str(Append(HttpA, "/"))]
\* the log jwsPayload.validate returns with it
PayloadLogOf(kind) ==
    CASE kind = "none" -> <<Entry("fatal", "JSON_PARSE_ERROR", "payload")>>
      [] kind \in {"noiss", "emptyiss"} -> <<Entry("error", "SCHEMA_ERROR", "payload")>>
      [] OTHER -> <<>>

\* pako.inflateRaw(..., {to: 'string'}): throws, or returns the inflated text,
\* which is the empty string for a deflate stream of no data
InflateOutcomes == {"throw", "empty", "text"}
InflatedText == <<"{", "}">>

\* got(jwkURL).json() and the key-set validation chained on it
DownloadOutcomes == {"ok", "network_error", "parse_error", "keyset_throw"}

\* ---------------------------------------------------------------- state
VARIABLES
    input,            \* the argument of the current call of validate
    jws,              \* validate's parameter jws (reassigned by the trim)
    log,              \* validate's Log('JWS-compact'): its own entries
    child,            \* log.child
    parts,            \* jws.split('.')
    inflatedPayload,  \* the local inflatedPayload
    payloadArg,       \* the argument jwsPayload.validate was called with
    payload,          \* payloadResult.result
    result,           \* the result of the returned ValidationResult
    pc,               \* position in validate
    outcome,          \* "running", "returned" or "threw" (the promise rejected)
    env,              \* outcomes of the collaborators, fixed once observed
    calls,            \* how often each collaborator was called in this call
    seen,             \* the string each later step operated on
    prior             \* the finished earlier call on the untrimmed argument

jwsVars == <<input, jws, log, child, parts, inflatedPayload, payloadArg, payload,
             result, pc, outcome, env, calls, seen, prior>>

VARIABLES
    images,           \* image.ts validate's parameter: the FileInfo batch
    idx,              \* the loop variable i (counted from 1 here)
    imgLog,           \* validate's Log('QR image'): its own entries
    imgChild,         \* log.child
    shcStrings,       \* the decoded strings collected so far
    imgResult,        \* the result of the returned pair
    imgPc,            \* position in image.ts validate
    imgOutcome,       \* "running", "returned" or "threw" (the promise rejected)
    trace             \* which images each step was run on

imageVars == <<images, idx, imgLog, imgChild, shcStrings, imgResult, imgPc,
               imgOutcome, trace>>

VARIABLES
    issuers,          \* TrustedIssuerDirectory.issuers
    dirLog,           \* the Log handed to checkTrustedIssuerDirectory
    checked           \* the iss arguments of the calls made so far

directoryVars == <<issuers, dirLog, checked>>

vars == <<jwsVars, imageVars, directoryVars>>

NoCalls == [payload |-> 0, download |-> 0, verify |-> 0]
NoEnv == [schema |-> "unset", inflate |-> "unset", payload |-> "unset",
          download |-> "unset", verify |-> "unset"]
NoSeen == [length |-> Undefined, shape |-> Undefined, split |-> Undefined,
           verify |-> Undefined]
NoPrior == [def |-> FALSE, input |-> <<>>, result |-> Undefined, outcome |-> "running",
            log |-> <<>>, child |-> Undefined]

\* an outcome not yet observed is any of the possible ones; once observed it
\* is the same on the next call with the same trimmed token
Outcomes(field, all) == IF env[field] = "unset" THEN all ELSE {env[field]}

\* the state at entry of validate(s)
Enter(s) ==
    /\ input = s
    /\ jws = s
    /\ log = <<>>
    /\ child = Undefined
    /\ parts = <<>>
    /\ inflatedPayload = Undefined
    /\ payloadArg = Undefined
    /\ payload = PayloadOf("none")
    /\ result = Undefined
    /\ pc = "trim"
    /\ outcome = "running"
    /\ calls = NoCalls
    /\ seen = NoSeen

\* the same, as the effect of a call made from a finished one
Call(s) ==
    /\ input' = s
    /\ jws' = s
    /\ log' = <<>>
    /\ child' = Undefined
    /\ parts' = <<>>
    /\ inflatedPayload' = Undefined
    /\ payloadArg' = Undefined
    /\ payload' = PayloadOf("none")
    /\ result' = Undefined
    /\ pc' = "trim"
    /\ outcome' = "running"
    /\ calls' = NoCalls
    /\ seen' = NoSeen

JwsIdle ==
    /\ input = <<>> /\ jws = <<>> /\ log = <<>> /\ child = Undefined /\ parts = <<>>
    /\ inflatedPayload = Undefined /\ payloadArg = Undefined
    /\ payload = PayloadOf("none") /\ result = Undefined /\ pc = "idle"
    /\ outcome = "running" /\ calls = NoCalls /\ seen = NoSeen
    /\ env = NoEnv /\ prior = NoPrior

ImageIdle ==
    /\ images = <<>> /\ idx = 1 /\ imgLog = <<>> /\ imgChild = Undefined
    /\ shcStrings = <<>> /\ imgResult = Undefined /\ imgPc = "idle"
    /\ imgOutcome = "running"
    /\ trace = [decode |-> <<>>, pngRead |-> {}, written |-> {}, qrBuffer |-> {}, qrValidate |-> 0]

DirectoryIdle ==
    /\ issuers = [def |-> FALSE, participating_issuers |-> <<>>]
    /\ dirLog = <<>>
    /\ checked = <<>>

Init ==
    /\ \E s \in Strings(MaxLen) : Enter(s)
    /\ env = NoEnv
    /\ prior = NoPrior
    /\ ImageIdle
    /\ DirectoryIdle

\* ------------------------------------------------------------- validate
\* TrimInput with the reassignment jws = jws.trim() left out
TrimInput_WarnOnly ==
    /\ UNCHANGED <<imageVars, directoryVars>>
    /\ pc = "trim"
    /\ LET w1 == IF Trim(jws) # jws
                 THEN <<Entry("warning", "TRAILING_CHARACTERS", "JWS has leading or trailing spaces")>>
                 ELSE <<>>
           w2 == IF Len(jws) > MAX_JWS_SINGLE_CHUNK_LENGTH
                 THEN <<Entry("warning", "JWS_TOO_LONG", "JWS is longer")>>
                 ELSE <<>>
       IN /\ log' = log \o w1 \o w2
          /\ seen' = [seen EXCEPT !.length = Str(jws)]
    /\ pc' = "shape"
    /\ UNCHANGED <<input, jws, child, parts, inflatedPayload, payloadArg, payload, result,
                   outcome, env, calls, prior>>

\* lines 26-35: new Log, trim with warning, length warning
TrimInput ==
    /\ UNCHANGED <<imageVars, directoryVars>>
    /\ pc = "trim"
    /\ LET trimmed == Trim(jws)
           w1 == IF trimmed # jws
                 THEN <<Entry("warning", "TRAILING_CHARACTERS", "JWS has leading or trailing spaces")>>
                 ELSE <<>>
           w2 == IF Len(trimmed) > MAX_JWS_SINGLE_CHUNK_LENGTH
                 THEN <<Entry("warning", "JWS_TOO_LONG", "JWS is longer")>>
                 ELSE <<>>
       IN /\ jws' = trimmed
          /\ log' = log \o w1 \o w2
          /\ seen' = [seen EXCEPT !.length = Str(trimmed)]
    /\ pc' = "shape"
    /\ UNCHANGED <<input, child, parts, inflatedPayload, payloadArg, payload, result,
                   outcome, env, calls, prior>>

\* lines 37-42: the shape check; fatal and an undefined result when it fails
ShapeCheck ==
    /\ UNCHANGED <<imageVars, directoryVars>>
    /\ pc = "shape"
    /\ seen' = [seen EXCEPT !.shape = Str(jws)]
    /\ IF ~RegexTest(jws)
       THEN /\ log' = Append(log, Entry("fatal", "JSON_PARSE_ERROR", "Failed to parse JWS-compact data"))
            /\ result' = Undefined
            /\ outcome' = "returned"
            /\ pc' = "done"
       ELSE /\ pc' = "schema"
            /\ UNCHANGED <<log, result, outcome>>
    /\ UNCHANGED <<input, jws, child, parts, inflatedPayload, payloadArg, payload,
                   env, calls, prior>>

\* lines 45-54: validateSchema (records failures in the log), split, two debug entries
SchemaAndSplit ==
    /\ UNCHANGED <<imageVars, directoryVars>>
    /\ pc = "schema"
    /\ \E o \in Outcomes("schema", {"ok", "bad"}) :
        /\ env' = [env EXCEPT !.schema = o]
        /\ log' = log
                  \o (IF o = "bad" THEN <<Entry("error", "SCHEMA_ERROR", "schema")>> ELSE <<>>)
                  \o <<Entry("debug", NoCode, "JWS.header"), Entry("debug", NoCode, "JWS.key")>>
    /\ parts' = Split(jws)
    /\ seen' = [seen EXCEPT !.split = Str(jws)]
    /\ pc' = "inflate"
    /\ UNCHANGED <<input, jws, child, inflatedPayload, payloadArg, payload, result,
                   outcome, calls, prior>>

\* lines 56-66: raw inflate of the payload segment; an error entry when it throws
Inflate ==
    /\ UNCHANGED <<imageVars, directoryVars>>
    /\ pc = "inflate"
    /\ \E o \in Outcomes("inflate", InflateOutcomes) :
        /\ env' = [env EXCEPT !.inflate = o]
        /\ IF o = "throw"
           THEN /\ log' = Append(log, Entry("error", "INFLATION_ERROR", "Error inflating JWS payload"))
                /\ UNCHANGED inflatedPayload
           ELSE /\ inflatedPayload' = Str(IF o = "empty" THEN <<>> ELSE InflatedText)
                /\ log' = Append(log, Entry("info", NoCode, "JWS payload inflated"))
    /\ pc' = "payload"
    /\ UNCHANGED <<input, jws, child, parts, payloadArg, payload, result, outcome,
                   calls, seen, prior>>

\* line 70: inflatedPayload || rawPayload
PayloadArgument == IF Truthy(inflatedPayload) THEN inflatedPayload ELSE Str(parts[2])

\* lines 70-81: the Payload Validator on (inflatedPayload || rawPayload), its
\* log attached as child, and the early return when it gave no payload
ValidatePayload ==
    /\ UNCHANGED <<imageVars, directoryVars>>
    /\ pc = "payload"
    /\ payloadArg' = PayloadArgument
    /\ calls' = [calls EXCEPT !.payload = @ + 1]
    /\ \E k \in Outcomes("payload", PayloadKinds) :
        /\ env' = [env EXCEPT !.payload = k]
        /\ payload' = PayloadOf(k)
        /\ child' = Str(PayloadLogOf(k))
        /\ IF ~PayloadOf(k).def
           THEN /\ result' = Undefined
                /\ outcome' = "returned"
                /\ pc' = "done"
           ELSE /\ pc' = "iss"
                /\ UNCHANGED <<result, outcome>>
    /\ UNCHANGED <<input, jws, log, parts, inflatedPayload, seen, prior>>

\* lines 85-96: the three checks of payload.iss.  payload.iss.slice on a
\* missing iss is a TypeError, which rejects validate's promise.
CheckIssuer ==
    /\ UNCHANGED <<imageVars, directoryVars>>
    /\ pc = "iss"
    /\ LET e1 == IF ~Truthy(payload.iss)
                 THEN <<Entry("error", "SCHEMA_ERROR", "Can't find 'iss' entry in JWS payload")>>
                 ELSE <<>>
       IN IF ~payload.iss.def
          THEN /\ log' = log \o e1
               /\ outcome' = "threw"
               /\ pc' = "done"
          ELSE LET iss == payload.iss.val
                   e2 == IF SliceHead(iss, 8) # Https
                         THEN <<Entry("error", "INVALID_ISSUER_URL", "Issuer URL SHALL use https")>>
                         ELSE <<>>
                   e3 == IF SliceLast(iss) = <<"/">>
                         THEN <<Entry("error", "INVALID_ISSUER_URL", "Issuer URL SHALL NOT include a trailing /")>>
                         ELSE <<>>
               IN /\ log' = log \o e1 \o e2 \o e3
                  /\ pc' = "download"
                  /\ UNCHANGED outcome
    /\ UNCHANGED <<input, jws, child, parts, inflatedPayload, payloadArg, payload,
                   result, env, calls, seen, prior>>

\* lines 99, 113-118: downloadKey logs the URL and issues the request
DownloadKey ==
    /\ UNCHANGED <<imageVars, directoryVars>>
    /\ pc = "download"
    /\ log' = Append(log, Entry("info", NoCode, "Retrieving issuer key"))
    /\ calls' = [calls EXCEPT !.download = @ + 1]
    /\ pc' = "downloading"
    /\ UNCHANGED <<input, jws, child, parts, inflatedPayload, payloadArg, payload,
                   result, outcome, env, seen, prior>>

\* DownloadSettled without the .catch: a failed download rejects validate
DownloadSettled_NoCatch ==
    /\ UNCHANGED <<imageVars, directoryVars>>
    /\ pc = "downloading"
    /\ \E o \in Outcomes("download", DownloadOutcomes) :
        /\ env' = [env EXCEPT !.download = o]
        /\ log' = log
                  \o (IF o \in {"ok", "keyset_throw"}
                      THEN <<Entry("debug", NoCode, "Downloaded issuer key(s)")>> ELSE <<>>)
        /\ IF o = "ok"
           THEN pc' = "verify" /\ UNCHANGED outcome
           ELSE pc' = "done" /\ outcome' = "threw"
    /\ UNCHANGED <<input, jws, child, parts, inflatedPayload, payloadArg, payload,
                   result, calls, seen, prior>>

\* lines 118-128: the request settles; .then logs and validates the key set,
\* .catch turns every rejection into one download-error entry
DownloadSettled ==
    /\ UNCHANGED <<imageVars, directoryVars>>
    /\ pc = "downloading"
    /\ \E o \in Outcomes("download", DownloadOutcomes) :
        /\ env' = [env EXCEPT !.download = o]
        /\ log' = log
                  \o (IF o \in {"ok", "keyset_throw"}
                      THEN <<Entry("debug", NoCode, "Downloaded issuer key(s)")>> ELSE <<>>)
                  \o (IF o # "ok"
                      THEN <<Entry("error", "ISSUER_KEY_DOWNLOAD_ERROR", "Can't parse downloaded issuer keys")>>
                      ELSE <<>>)
    /\ pc' = "verify"
    /\ UNCHANGED <<input, jws, child, parts, inflatedPayload, payloadArg, payload,
                   result, outcome, calls, seen, prior>>

\* verifyJws with the catch block logging nothing
VerifyJwsLog_Silent(ok) == <<>>

\* lines 133-147: verifyJws; an error entry and false when the verifier throws
VerifyJwsLog(ok) ==
    IF ok THEN <<>>
    ELSE <<Entry("error", "JWS_VERIFICATION_ERROR", "JWS verification failed")>>

\* VerifyAndReturn returning the argument as it was passed in, untrimmed
VerifyAndReturn_EchoesArgument ==
    /\ UNCHANGED <<imageVars, directoryVars>>
    /\ pc = "verify"
    /\ calls' = [calls EXCEPT !.verify = @ + 1]
    /\ seen' = [seen EXCEPT !.verify = Str(jws)]
    /\ \E o \in Outcomes("verify", {"pass", "fail"}) :
        /\ env' = [env EXCEPT !.verify = o]
        /\ log' = log \o (IF o = "pass" THEN <<>>
                           ELSE <<Entry("error", "JWS_VERIFICATION_ERROR", "JWS verification failed")>>)
                  \o (IF o = "pass" THEN <<Entry("info", NoCode, "JWS signature verified")>> ELSE <<>>)
    /\ result' = Str(input)
    /\ outcome' = "returned"
    /\ pc' = "done"
    /\ UNCHANGED <<input, jws, child, parts, inflatedPayload, payloadArg, payload, prior>>

\* lines 102-109: verifyJws, the info entry when it passed, and the return
VerifyAndReturn ==
    /\ UNCHANGED <<imageVars, directoryVars>>
    /\ pc = "verify"
    /\ calls' = [calls EXCEPT !.verify = @ + 1]
    /\ seen' = [seen EXCEPT !.verify = Str(jws)]
    /\ \E o \in Outcomes("verify", {"pass", "fail"}) :
        /\ env' = [env EXCEPT !.verify = o]
        /\ log' = log \o VerifyJwsLog(o = "pass")
                  \o (IF o = "pass" THEN <<Entry("info", NoCode, "JWS signature verified")>> ELSE <<>>)
    /\ result' = Str(jws)
    /\ outcome' = "returned"
    /\ pc' = "done"
    /\ UNCHANGED <<input, jws, child, parts, inflatedPayload, payloadArg, payload, prior>>

\* a caller that, after validate(s) has finished, calls validate(s.trim())
\* with the same Key Store and the same collaborator outcomes
CallOnTrimmed ==
    /\ UNCHANGED <<imageVars, directoryVars>>
    /\ pc = "done"
    /\ ~prior.def
    /\ prior' = [def |-> TRUE, input |-> input, result |-> result, outcome |-> outcome,
                 log |-> log, child |-> child]
    /\ Call(Trim(input))
    /\ UNCHANGED env

Next ==
    \/ TrimInput
    \/ ShapeCheck
    \/ SchemaAndSplit
    \/ Inflate
    \/ ValidatePayload
    \/ CheckIssuer
    \/ DownloadKey
    \/ DownloadSettled
    \/ VerifyAndReturn
    \/ CallOnTrimmed

Spec == Init /\ [][Next]_vars

\* ====================================================== Image QR Decoder
\* longest batch of images handed to image.ts validate
MaxImages == 2

\* the file types the switch of decode names, and one it does not
KnownRasterTypes == {"png", "jpg", "bmp"}
FileTypes == {"svg"} \cup KnownRasterTypes \cup {"gif"}
\* fileInfo.image: no pixel data, pixel data without a QR code, pixel data with one
ImageKinds == {"none", "blank", "qr"}
\* what svg2img makes of an svg file's buffer: an error, or a raster image
SvgKinds == {"bad", "blank", "qr"}
\* the text of a decoded QR code
QrText == "shc:/"

FileInfos ==
    [fileType : {"svg"}, image : ImageKinds, svg : SvgKinds]
    \cup [fileType : FileTypes \ {"svg"}, image : ImageKinds, svg : {"n/a"}]

RECURSIVE Batches(_)
Batches(n) ==
    IF n = 0 THEN {<<>>}
    ELSE LET shorter == Batches(n - 1)
         IN shorter \cup {Append(b, f) : b \in {c \in shorter : Len(c) = n - 1}, f \in FileInfos}

InitImage ==
    /\ images \in Batches(MaxImages)
    /\ idx = 1
    /\ imgLog = <<>>
    /\ imgChild = Undefined
    /\ shcStrings = <<>>
    /\ imgResult = Undefined
    /\ imgPc = "loop"
    /\ imgOutcome = "running"
    /\ trace = [decode |-> <<>>, pngRead |-> {}, written |-> {}, qrBuffer |-> {}, qrValidate |-> 0]
    /\ JwsIdle
    /\ DirectoryIdle

\* lines 91-112, decodeQrBuffer: the decoded text, or undefined after a fatal entry
DecodeQrBuffer(fileInfo) ==
    IF fileInfo.image = "none"
    THEN [shc |-> Undefined,
          entries |-> <<Entry("fatal", NoCode, "Could not read image data")>>]
    ELSE IF fileInfo.image = "blank"
    THEN [shc |-> Undefined,
          entries |-> <<Entry("fatal", "QR_DECODE_ERROR", "Could not decode QR image")>>]
    ELSE [shc |-> Str(QrText), entries |-> <<>>]

\* LoopBody without the early return: a failed image is skipped
LoopBody_SkipsFailedImage(decoded) ==
    /\ shcStrings' = (IF decoded.shc.def THEN Append(shcStrings, decoded.shc.val) ELSE shcStrings)
    /\ imgLog' = imgLog \o decoded.entries
                 \o (IF decoded.shc.def
                     THEN <<Entry("info", NoCode, "decoded"), Entry("debug", NoCode, "shc")>>
                     ELSE <<>>)
    /\ idx' = idx + 1
    /\ imgPc' = "loop"
    /\ UNCHANGED <<imgResult, imgOutcome>>

\* lines 27-32: what the loop body does with the value decode resolved to
LoopBody(decoded) ==
    IF ~decoded.shc.def
    THEN /\ imgLog' = imgLog \o decoded.entries
         /\ imgResult' = Undefined
         /\ imgOutcome' = "returned"
         /\ imgPc' = "done"
         /\ UNCHANGED <<idx, shcStrings>>
    ELSE /\ shcStrings' = Append(shcStrings, decoded.shc.val)
         /\ imgLog' = imgLog \o decoded.entries
                      \o <<Entry("info", NoCode, "decoded"), Entry("debug", NoCode, "shc")>>
         /\ idx' = idx + 1
         /\ imgPc' = "loop"
         /\ UNCHANGED <<imgResult, imgOutcome>>

\* lines 27, 47-50, 74-87: decode of an svg file calls svgToImageBuffer; the
\* svg2img callback logs a fatal entry and rejects on error (the await in
\* decode then throws, and nothing up to validate's caller catches it), or
\* resolves with the buffer
SvgToImageBuffer ==
    /\ UNCHANGED <<jwsVars, directoryVars>>
    /\ imgPc = "loop"
    /\ idx <= Len(images)
    /\ images[idx].fileType = "svg"
    /\ trace' = [trace EXCEPT !.decode = Append(@, idx)]
    /\ IF images[idx].svg = "bad"
       THEN /\ imgLog' = Append(imgLog, Entry("fatal", NoCode, "Could not convert SVG to image"))
            /\ imgOutcome' = "threw"
            /\ imgPc' = "done"
       ELSE /\ imgPc' = "svgBuffer"
            /\ UNCHANGED <<imgLog, imgOutcome>>
    /\ UNCHANGED <<images, idx, imgChild, shcStrings, imgResult>>

\* lines 51-58, 28-31: decode resumes with the buffer: PNG.sync.read into
\* fileInfo.image, the '.png' file written, then the fall-through into
\* decodeQrBuffer and the loop body
SvgDecoded ==
    /\ UNCHANGED <<jwsVars, directoryVars>>
    /\ imgPc = "svgBuffer"
    /\ LET read == [images[idx] EXCEPT !.image = images[idx].svg]
       IN /\ images' = [images EXCEPT ![idx] = read]
          /\ trace' = [trace EXCEPT !.pngRead = @ \cup {idx}, !.written = @ \cup {idx},
                                    !.qrBuffer = @ \cup {idx}]
          /\ LoopBody(DecodeQrBuffer(read))
    /\ UNCHANGED imgChild

\* lines 27, 55-58, 28-31: decode of a png, jpg or bmp file
DecodeRaster ==
    /\ UNCHANGED <<jwsVars, directoryVars>>
    /\ imgPc = "loop"
    /\ idx <= Len(images)
    /\ images[idx].fileType \in KnownRasterTypes
    /\ trace' = [trace EXCEPT !.decode = Append(@, idx), !.qrBuffer = @ \cup {idx}]
    /\ LoopBody(DecodeQrBuffer(images[idx]))
    /\ UNCHANGED <<images, imgChild>>

\* lines 27, 60-62, 28: decode of any other file type
DecodeUnknown ==
    /\ UNCHANGED <<jwsVars, directoryVars>>
    /\ imgPc = "loop"
    /\ idx <= Len(images)
    /\ images[idx].fileType \notin {"svg"} \cup KnownRasterTypes
    /\ trace' = [trace EXCEPT !.decode = Append(@, idx)]
    /\ LoopBody([shc |-> Undefined,
                 entries |-> <<Entry("fatal", "UNKNOWN_FILE_DATA", "Unknown data in file")>>])
    /\ UNCHANGED <<images, imgChild>>

\* lines 35-38: after the loop, qr.validate on the collected strings, its log
\* attached as child, and the JSON of the strings as result
QrValidateAndReturn ==
    /\ UNCHANGED <<jwsVars, directoryVars>>
    /\ imgPc = "loop"
    /\ idx > Len(images)
    /\ trace' = [trace EXCEPT !.qrValidate = @ + 1]
    /\ imgChild' = Str(<<"qr.validate", shcStrings>>)
    /\ imgResult' = Str(shcStrings)
    /\ imgOutcome' = "returned"
    /\ imgPc' = "done"
    /\ UNCHANGED <<images, idx, imgLog, shcStrings>>

NextImage ==
    \/ SvgToImageBuffer
    \/ SvgDecoded
    \/ DecodeRaster
    \/ DecodeUnknown
    \/ QrValidateAndReturn

SpecImage == InitImage /\ [][NextImage]_vars

\* ================================================ Trusted Issuer Directory
\* most participating issuers in the directory, and most calls made
MaxIssuers == 2
MaxChecks == 2

IssuerUrls == {"https://a", "https://b"}
\* friendly names; a name is a string, and may be the empty one
IssuerNames == {"", "Issuer A"}
TrustedIssuer == [iss : IssuerUrls, name : IssuerNames]

RECURSIVE IssuerLists(_)
IssuerLists(n) ==
    IF n = 0 THEN {<<>>}
    ELSE LET shorter == IssuerLists(n - 1)
         IN shorter \cup {Append(l, e) : l \in {m \in shorter : Len(m) = n - 1}, e \in TrustedIssuer}

\* line 140: "we assume there are no duplicated URLs in the list"
NoDuplicateUrls(l) == \A j, k \in 1..Len(l) : l[j].iss = l[k].iss => j = k

InitDirectory ==
    /\ \/ issuers = [def |-> FALSE, participating_issuers |-> <<>>]
       \/ \E l \in IssuerLists(MaxIssuers) :
            /\ NoDuplicateUrls(l)
            /\ issuers = [def |-> TRUE, participating_issuers |-> l]
    /\ dirLog = <<>>
    /\ checked = <<>>
    /\ JwsIdle
    /\ ImageIdle

\* Array.prototype.filter with issuer => issuer.iss === iss
RECURSIVE FilterIss(_, _)
FilterIss(list, iss) ==
    IF list = <<>> THEN <<>>
    ELSE (IF Head(list).iss = iss THEN <<Head(list)>> ELSE <<>>) \o FilterIss(Tail(list), iss)

\* line 141: ...filter(...).map(issuer => issuer.name)[0]: the first match's
\* name, undefined when nothing matched
IssName(iss) ==
    LET found == FilterIss(issuers.participating_issuers, iss)
    IN IF found = <<>> THEN [def |-> FALSE, val |-> ""] ELSE [def |-> TRUE, val |-> found[1].name]

\* lines 138-151, checkTrustedIssuerDirectory(iss, log); if (issName) is
\* JavaScript truthiness: false for undefined and for the empty string
CheckTrustedIssuerDirectory ==
    /\ UNCHANGED <<jwsVars, imageVars>>
    /\ Len(checked) < MaxChecks
    /\ \E iss \in IssuerUrls \cup {"https://c"} :
        /\ checked' = Append(checked, iss)
        /\ IF issuers.def
           THEN LET issName == IssName(iss)
                IN IF issName.def /\ issName.val # ""
                   THEN dirLog' = Append(dirLog, [level |-> "debug", code |-> NoCode,
                                                  msg |-> "Issuer found in directory", name |-> issName.val])
                   ELSE dirLog' = Append(dirLog, [level |-> "error", code |-> "ISSUER_NOT_TRUSTED",
                                                  msg |-> "Issuer not part of the directory", name |-> ""])
           ELSE dirLog' = Append(dirLog, [level |-> "error", code |-> NoCode,
                                          msg |-> "directory not set", name |-> ""])
    /\ UNCHANGED issuers

NextDirectory == CheckTrustedIssuerDirectory

SpecDirectory == InitDirectory /\ [][NextDirectory]_vars

\* ================================================================ claims
\* positions of the entries of log l with the given level and code
Where(l, level, code) == {k \in 1..Len(l) : l[k].level = level /\ l[k].code = code}
\* positions of the entries of log l with the given message
WhereMsg(l, msg) == {k \in 1..Len(l) : l[k].msg = msg}
Last(l) == l[Len(l)]

\* the shape check rejected the token: the fatal JSON_PARSE_ERROR entry is logged
ShapeRejected == Where(log, "fatal", "JSON_PARSE_ERROR") # {}
\* the Payload Validator was called and gave no usable payload
PayloadFailed == calls.payload = 1 /\ ~payload.def

\* C1: when the Payload Validator returns a usable payload without an iss
\* claim, validate logs an error-level SCHEMA_ERROR entry and still goes on
\* to key resolution and signature verification and returns {result, log}.
C1_MissingIssContinues ==
    (pc = "done" /\ payload.def /\ ~payload.iss.def) =>
        /\ WhereMsg(log, "Can't find 'iss' entry in JWS payload")
               \cap Where(log, "error", "SCHEMA_ERROR") # {}
        /\ calls.download = 1
        /\ calls.verify = 1
        /\ outcome = "returned"

C3_TrimIdempotent ==
    /\ pc # "trim" =>
        /\ Where(log, "warning", "TRAILING_CHARACTERS") # {} <=> input # Trim(input)
        /\ \A step \in DOMAIN seen : seen[step].def => seen[step] = Str(Trim(input))
        /\ seen.length.def
    /\ pc \notin {"trim", "shape"} => seen.shape.def
    /\ (pc = "done" /\ result.def) => seen.split.def /\ seen.verify.def
    /\ prior.def =>
        /\ input = Trim(prior.input)
        /\ Where(prior.log, "warning", "TRAILING_CHARACTERS") # {} <=> prior.input # Trim(prior.input)
        /\ pc = "done" => result = prior.result /\ outcome = prior.outcome

C3_Witness ==
    /\ pc = "done" /\ prior.def
    /\ prior.input # Trim(prior.input)
    /\ prior.result.def
    /\ result = prior.result
    /\ Where(prior.log, "warning", "TRAILING_CHARACTERS") # {}
    /\ Where(log, "warning", "TRAILING_CHARACTERS") = {}

\* C4: in every run that reaches key resolution, a failed issuer key download
\* (network error, unparsable response, failure raised while validating the
\* key set) gives an error-level ISSUER_KEY_DOWNLOAD_ERROR entry, after which
\* signature verification is still attempted exactly once and the result is
\* the defined token string; the download-error entry precedes any
\* signature-verification-error entry.
C4_DownloadFailureFallsBack ==
    LET dl == Where(log, "error", "ISSUER_KEY_DOWNLOAD_ERROR")
        ve == Where(log, "error", "JWS_VERIFICATION_ERROR")
    IN /\ calls.download = 1 => pc \in {"downloading", "verify", "done"}
       /\ (pc = "verify" /\ env.download # "ok") =>
            /\ Cardinality(dl) = 1 /\ Len(log) \in dl
            /\ calls.verify = 0
       /\ (pc = "done" /\ calls.download = 1 /\ env.download # "ok") =>
            /\ Cardinality(dl) = 1
            /\ calls.verify = 1
            /\ outcome = "returned"
            /\ result.def /\ result = Str(jws)
            /\ \A d \in dl, v \in ve : d < v

C4_Witness ==
    /\ pc = "done" /\ calls.download = 1 /\ calls.verify = 1
    /\ env.download = "keyset_throw" /\ env.verify = "fail"
    /\ Where(log, "error", "ISSUER_KEY_DOWNLOAD_ERROR") # {}
    /\ Where(log, "error", "JWS_VERIFICATION_ERROR") # {}
    /\ result.def

\* C5: signature verification is never fatal and independent of payload
\* validation: a failing check adds exactly one error-level
\* JWS_VERIFICATION_ERROR entry and no 'JWS signature verified' entry, a
\* passing check adds that info entry and no JWS_VERIFICATION_ERROR entry,
\* and either way the result (the trimmed token) and the payload child log
\* (that of the Payload Validator) are what the other outcome would give.
C5_VerificationNeverFatal ==
    LET ve == Where(log, "error", "JWS_VERIFICATION_ERROR")
        ok == WhereMsg(log, "JWS signature verified")
    IN /\ calls.verify = 0 => ve = {} /\ ok = {}
       /\ calls.verify = 1 =>
            /\ pc = "done" /\ outcome = "returned"
            /\ env.verify = "fail" => Cardinality(ve) = 1 /\ ok = {}
            /\ env.verify = "pass" => ve = {} /\ Cardinality(ok) = 1 /\ log[Len(log)].level = "info"
            /\ result = Str(Trim(input))
            /\ child = Str(PayloadLogOf(env.payload))
            /\ payload = PayloadOf(env.payload)

C5_Witness ==
    /\ pc = "done" /\ calls.verify = 1 /\ env.verify = "fail"
    /\ payload.def
    /\ Where(log, "error", "JWS_VERIFICATION_ERROR") # {}
    /\ result.def

\* ---- Image QR Decoder
\* the image cannot be decoded: unknown file type, no pixel data, or pixel
\* data (read from the file, or rasterized from the svg) without a QR code
Undecodable(f) ==
    \/ f.fileType \notin {"svg"} \cup KnownRasterTypes
    \/ f.fileType \in KnownRasterTypes /\ f.image # "qr"
    \/ f.fileType = "svg" /\ f.svg = "blank"
\* the svg file cannot be converted to a raster image
Unconvertible(f) == f.fileType = "svg" /\ f.svg = "bad"
\* the first image of the batch that fails either way
FirstFailing ==
    CHOOSE k \in 1..Len(images) :
        /\ Undecodable(images[k]) \/ Unconvertible(images[k])
        /\ \A j \in 1..(k - 1) : ~(Undecodable(images[j]) \/ Unconvertible(images[j]))
\* the fatal entry the code logs for a failing image
FatalEntryFor(f) ==
    IF Unconvertible(f) THEN Entry("fatal", NoCode, "Could not convert SVG to image")
    ELSE IF f.fileType \notin {"svg"} \cup KnownRasterTypes
    THEN Entry("fatal", "UNKNOWN_FILE_DATA", "Unknown data in file")
    ELSE IF f.fileType \in KnownRasterTypes /\ f.image = "none"
    THEN Entry("fatal", NoCode, "Could not read image data")
    ELSE Entry("fatal", "QR_DECODE_ERROR", "Could not decode QR image")

\* C6, as stated: if any image of the batch cannot be decoded (no pixel data,
\* no QR code found, unknown file type), validate returns an undefined result
\* and a log with a fatal QR-decode-error entry; images after the first
\* failing one are not decoded and the numeric-QR validator is not invoked.
C6_AnyUndecodableIsQrDecodeError ==
    (imgPc = "done" /\ \E k \in 1..Len(images) : Undecodable(images[k])) =>
        /\ imgOutcome = "returned"
        /\ imgResult = Undefined
        /\ Where(imgLog, "fatal", "QR_DECODE_ERROR") # {}
        /\ \A k \in 1..Len(trace.decode) : trace.decode[k] <= FirstFailing
        /\ trace.qrValidate = 0

\* C6, amended: if any image of the batch cannot be decoded, validate yields
\* no defined result and its log ends with the fatal entry of the first
\* failing image: QR_DECODE_ERROR only when no QR code was found,
\* UNKNOWN_FILE_DATA for an unknown file type, no error code for missing
\* pixel data or for an earlier failed svg conversion (where validate
\* rejects instead of returning); images after the first failing one are not
\* decoded and the numeric-QR validator is not invoked.
C6_FirstFailureIsFatalForBatch ==
    (imgPc = "done" /\ \E k \in 1..Len(images) : Undecodable(images[k])) =>
        /\ imgResult = Undefined
        /\ imgOutcome = (IF Unconvertible(images[FirstFailing]) THEN "threw" ELSE "returned")
        /\ imgLog # <<>> /\ Last(imgLog) = FatalEntryFor(images[FirstFailing])
        /\ Cardinality({k \in 1..Len(imgLog) : imgLog[k].level = "fatal"}) = 1
        /\ trace.decode = [k \in 1..FirstFailing |-> k]
        /\ Len(shcStrings) = FirstFailing - 1
        /\ trace.qrValidate = 0 /\ imgChild = Undefined

C6_Witness ==
    /\ imgPc = "done" /\ imgOutcome = "returned"
    /\ Len(images) = 2
    /\ ~Undecodable(images[2]) /\ ~Unconvertible(images[2])
    /\ images[1].fileType \notin {"svg"} \cup KnownRasterTypes
    /\ trace.decode = <<1>>
    /\ imgResult = Undefined
    /\ Last(imgLog).code = "UNKNOWN_FILE_DATA"

\* C7: when SVG-to-raster conversion fails for an svg image, validate logs a
\* fatal entry and returns {result: undefined, log} to its caller instead of
\* aborting with a rejection, and it neither reads the PNG, writes the
\* '.png' file nor runs QR decoding on that image.
C7_SvgFailureReturnsLog ==
    \A k \in 1..Len(trace.decode) :
        (imgPc = "done" /\ Unconvertible(images[trace.decode[k]])) =>
            /\ Where(imgLog, "fatal", NoCode) # {}
            /\ imgOutcome = "returned"
            /\ imgResult = Undefined
            /\ trace.decode[k] \notin trace.pngRead \cup trace.written \cup trace.qrBuffer

\* ---- Trusted Issuer Directory
\* C8: checkTrustedIssuerDirectory(iss, log) appends exactly one entry per
\* call: with no directory an error; with a directory a debug entry with the
\* participant's name iff some participating issuer's iss equals the given
\* iss, and otherwise an error-level ISSUER_NOT_TRUSTED entry.
C8_OneEntryPerLookup ==
    /\ Len(dirLog) = Len(checked)
    /\ \A k \in 1..Len(dirLog) :
        LET matches == {j \in 1..Len(issuers.participating_issuers) :
                            issuers.participating_issuers[j].iss = checked[k]}
        IN IF ~issuers.def
           THEN dirLog[k].level = "error"
           ELSE IF matches # {}
           THEN /\ dirLog[k].level = "debug"
                /\ \E j \in matches : dirLog[k].name = issuers.participating_issuers[j].name
           ELSE dirLog[k].level = "error" /\ dirLog[k].code = "ISSUER_NOT_TRUSTED"

\* ---- Compact Token Validator, continued
\* C9: the shape check accepts exactly the strings that are, as a whole,
\* three non-empty dot-separated base64url segments; every other trimmed
\* input gets a fatal JSON_PARSE_ERROR entry and an undefined result, so
\* past the check the split yields exactly three segments.
C9_ShapeCheckIsExact ==
    /\ seen.shape.def =>
        IF IsCompactShape(jws)
        THEN ~ShapeRejected
        ELSE ShapeRejected /\ pc = "done" /\ outcome = "returned" /\ result = Undefined
    /\ seen.split.def => Len(parts) = 3

\* C10: for every token that passes the shape check the Payload Validator is
\* invoked exactly once, before any issuer check, download or verification;
\* it receives the inflated payload whenever inflation succeeded and the raw
\* payload segment only when inflation failed, with an error-level
\* INFLATION_ERROR entry logged; without a usable payload validate returns
\* at once, the payload log attached as child, with no download or
\* verification.
C10_PayloadValidatorOnceOnInflated ==
    /\ calls.payload <= 1
    /\ pc \in {"iss", "download", "downloading", "verify"} => calls.payload = 1
    /\ (pc = "done" /\ seen.split.def) => calls.payload = 1
    /\ calls.payload = 0 => calls.download = 0 /\ calls.verify = 0
    /\ calls.payload = 1 =>
        IF env.inflate # "throw"
        THEN payloadArg = inflatedPayload
        ELSE /\ payloadArg = Str(parts[2])
             /\ Where(log, "error", "INFLATION_ERROR") # {}
             /\ Where(log, "fatal", "INFLATION_ERROR") = {}
    /\ PayloadFailed =>
        /\ pc = "done" /\ outcome = "returned" /\ result = Undefined
        /\ child = Str(PayloadLogOf(env.payload))
        /\ calls.download = 0 /\ calls.verify = 0

====
